---- MODULE Spec2Model ----
(***************************************************************************)
(* Model of scripts/setup/validate-hooks.py: a pre-execution guard that    *)
(* reads one JSON request from standard input, validates a shell command   *)
(* or a file path against fixed lists, appends the decision to a log file  *)
(* and exits with status 0 (allowed), 2 (blocked) or 1 (internal error).   *)
(*                                                                         *)
(* Python strings are TLA+ strings; substring containment (`a in b`) is    *)
(* computed character by character with SubSeq.  The Japanese message      *)
(* texts of the script are written in English here, because the module is  *)
(* ASCII; each message keeps its variable part (the matched list entry).   *)
(* The one process is modelled step by step (pc), and successive           *)
(* invocations share the log file and nothing else.                        *)
(***************************************************************************)
EXTENDS Integers, Sequences, FiniteSets, TLC

VARIABLES
    pc,         \* position of the running process in main(), or "idle"/"done"
    stdin,      \* the text given on standard input, by its parsed shape
    env,        \* process environment: HOME and the password database
    tool_name,  \* main(): tool_name
    tool_input, \* main(): tool_input
    command,    \* main(): command
    file_path,  \* main(): file_path
    is_valid,   \* main(): is_valid ("unset" before a validator returned)
    message,    \* main(): message
    exc,        \* the exception being propagated to line 119, or "none"
    stderr,     \* lines printed to sys.stderr by this process
    exit_code,  \* status the process ended with, -1 while it runs
    log,        \* lines of .claude/logs/validation.log
    log0,       \* lines of the log file when this process started
    now,        \* datetime.now(), as the number of the invocation
    prev        \* request, environment and outcome of the previous invocation

vars == <<pc, stdin, env, tool_name, tool_input, command, file_path, is_valid,
          message, exc, stderr, exit_code, log, log0, now, prev>>

\* Number of invocations of the script in one behaviour.
MaxRuns == 2

----------------------------------------------------------------------------
\* Lists of the script.

DANGEROUS_COMMANDS ==
    << "rm -rf /", "dd if=", "mkfs", ":(){:|:&};:", "chmod -R 777 /",
       "chown -R", "kill -9 -1", "> /dev/sda", "wget | sh", "curl | bash" >>

PROTECTED_PATHS ==
    << ".env", ".env.local", ".env.production", "node_modules/", ".git/",
       "dist/", "coverage/", ".claude/settings.json", "package-lock.json",
       "pnpm-lock.yaml", "/etc/", "/usr/", "/bin/", "/sbin/", "~/.ssh/",
       "~/.aws/" >>

\* Mutant: Read is validated like the file-mutating tools.
FILE_TOOLS_with_read == {"Write", "Edit", "MultiEdit", "Read"}

\* Line 106.
FILE_TOOLS == {"Write", "Edit", "MultiEdit"}

----------------------------------------------------------------------------
\* JSON values, as json.load returns them.  t is the Python type; s holds a
\* str (or the digits of a number), l the elements of a list of strings.

Absent == [t |-> "absent", s |-> "", l |-> <<>>]
JStr(v) == [t |-> "str", s |-> v, l |-> <<>>]
JNum(v) == [t |-> "int", s |-> v, l |-> <<>>]
JNull == [t |-> "NoneType", s |-> "", l |-> <<>>]
JList(v) == [t |-> "list", s |-> "", l |-> v]

\* dict.get(key, default) on the value found under key (Absent: no such key).
Get(v, default) == IF v.t = "absent" THEN default ELSE v

----------------------------------------------------------------------------
\* String primitives of Python.

\* sub in s, for two str: needle occurs at some offset i of hay.
Contains(sub, s) ==
    \E needle \in {sub}, hay \in {s} :
        \E i \in 0..(Len(hay) - Len(needle)) :
            SubSeq(hay, i + 1, i + Len(needle)) = needle

\* s.startswith(p)
StartsWith(s, p) == Len(s) >= Len(p) /\ SubSeq(s, 1, Len(p)) = p

\* s.find(ch, start): 0-based index of the first ch at or after start, or -1.
Find(s, ch, start) ==
    LET hits == {i \in start..(Len(s) - 1) : SubSeq(s, i + 1, i + 1) = ch}
    IN IF hits = {} THEN -1 ELSE CHOOSE i \in hits : \A j \in hits : i <= j

\* s.rstrip("/")
RECURSIVE RStrip(_)
RStrip(s) ==
    IF Len(s) > 0 /\ SubSeq(s, Len(s), Len(s)) = "/"
    THEN RStrip(SubSeq(s, 1, Len(s) - 1))
    ELSE s

\* x in container, as Python evaluates it for each type of container:
\* substring for str, membership for list, TypeError for int and None.
InRaises(container) == container.t \notin {"str", "list"}
In(x, container) ==
    CASE container.t = "str" -> Contains(x, container.s)
      [] container.t = "list" -> \E i \in 1..Len(container.l) : container.l[i] = x
      [] OTHER -> FALSE

----------------------------------------------------------------------------
\* os.path.expanduser(path) under environment e.
\* e.HOME is the HOME variable ("<unset>" when not set), e.user the name of
\* the process's user; PasswordDatabase maps the user names that the
\* password database knows to their home directories.

Unset == "<unset>"
KeyError == "<KeyError>"
PasswordDatabase == [u |-> "/home/u", bob |-> "/home/bob"]

getpwnam(name) ==
    IF name \in DOMAIN PasswordDatabase THEN PasswordDatabase[name] ELSE KeyError

expanduser(path, e) ==
    IF ~StartsWith(path, "~") THEN path
    ELSE
      LET f == Find(path, "/", 1)
          i == IF f < 0 THEN Len(path) ELSE f
          userhome == IF i = 1
                      THEN (IF e.HOME = Unset THEN getpwnam(e.user) ELSE e.HOME)
                      ELSE getpwnam(SubSeq(path, 2, i))
          joined == RStrip(userhome) \o SubSeq(path, i + 1, Len(path))
      IN IF userhome = KeyError THEN path
         ELSE IF joined = "" THEN "/" ELSE joined

----------------------------------------------------------------------------
\* The validators.  Each returns the pair (ok, message) of the script, or
\* raises: the _raises operator says which exception, "none" when it returns.

\* Lines 48-50: the for loop from entry i on; the index of the first entry
\* found in the command, 0 when the loop ends without a match.
RECURSIVE ScanCommands(_, _)
ScanCommands(cmd, i) ==
    IF i > Len(DANGEROUS_COMMANDS) THEN 0
    ELSE IF In(DANGEROUS_COMMANDS[i], cmd) THEN i
    ELSE ScanCommands(cmd, i + 1)

validate_command_raises(cmd) == IF InRaises(cmd) THEN "TypeError" ELSE "none"

DangerousMessage(i) == "dangerous command detected: " \o DANGEROUS_COMMANDS[i]

\* Mutant: the patterns are matched at the start of the command only.
RECURSIVE ScanCommandPrefixes(_, _)
ScanCommandPrefixes(cmd, i) ==
    IF i > Len(DANGEROUS_COMMANDS) THEN 0
    ELSE IF cmd.t = "str" /\ StartsWith(cmd.s, DANGEROUS_COMMANDS[i]) THEN i
    ELSE ScanCommandPrefixes(cmd, i + 1)
validate_command_prefix(cmd) ==
    LET i == ScanCommandPrefixes(cmd, 1)
    IN IF i > 0
       THEN [ok |-> FALSE, message |-> DangerousMessage(i)]
       ELSE [ok |-> TRUE, message |-> "OK"]

\* Mutant: the command validator also refuses a command that names a
\* protected path of the user's home directory.
validate_command_home(cmd) ==
    LET i == ScanCommands(cmd, 1)
    IN IF i > 0
       THEN [ok |-> FALSE, message |-> DangerousMessage(i)]
       ELSE IF cmd.t = "str" /\ \E k \in 1..Len(PROTECTED_PATHS) :
                    Contains(expanduser(PROTECTED_PATHS[k], env), cmd.s)
       THEN [ok |-> FALSE, message |-> "protected path access"]
       ELSE [ok |-> TRUE, message |-> "OK"]

\* Lines 46-51.
validate_command(cmd) ==
    LET i == ScanCommands(cmd, 1)
    IN IF i > 0
       THEN [ok |-> FALSE, message |-> DangerousMessage(i)]
       ELSE [ok |-> TRUE, message |-> "OK"]

\* Lines 56, 59, 60: with expanded_path and protected_expanded computed
\* once, protected in file_path or protected_expanded in expanded_path.
ProtectedHit(protected, path, e) ==
    \E expanded_path \in {expanduser(path, e)},
       protected_expanded \in {expanduser(protected, e)} :
        \/ Contains(protected, path)
        \/ Contains(protected_expanded, expanded_path)

\* Lines 58-61: the for loop from entry i on; the index of the first entry
\* that hits, 0 when the loop ends without a hit.
RECURSIVE ScanPaths(_, _, _)
ScanPaths(path, e, i) ==
    IF i > Len(PROTECTED_PATHS) THEN 0
    ELSE IF ProtectedHit(PROTECTED_PATHS[i], path, e) THEN i
    ELSE ScanPaths(path, e, i + 1)

\* Mutant: only a leading "../" counts as traversal.
Traversal_leading(path) == StartsWith(path, "../")

\* Line 64: '..' in file_path.
Traversal(path) == Contains("..", path)

\* os.path.expanduser raises TypeError on anything but a str.
validate_file_path_raises(fp) == IF fp.t # "str" THEN "TypeError" ELSE "none"

ProtectedMessage(i) == "protected path access: " \o PROTECTED_PATHS[i]

\* Mutant: the traversal check comes before the scan of the protected list.
validate_file_path_traversal_first(fp, e) ==
    LET i == ScanPaths(fp.s, e, 1)
    IN IF Traversal(fp.s)
       THEN [ok |-> FALSE, message |-> "parent directory traversal not allowed"]
       ELSE IF i > 0
       THEN [ok |-> FALSE, message |-> ProtectedMessage(i)]
       ELSE [ok |-> TRUE, message |-> "OK"]

\* Lines 53-67.
validate_file_path(fp, e) ==
    LET i == ScanPaths(fp.s, e, 1)
    IN IF i > 0
       THEN [ok |-> FALSE, message |-> ProtectedMessage(i)]
       ELSE IF Traversal(fp.s)
       THEN [ok |-> FALSE, message |-> "parent directory traversal not allowed"]
       ELSE [ok |-> TRUE, message |-> "OK"]

\* The log_entry dict of log_validation.
LogEntry(event_type, data, result, msg) ==
    [timestamp |-> now, event_type |-> event_type, data |-> data,
     result |-> result, message |-> msg]

\* Mutant: a bare except, which catches SystemExit too.
Catches_bare(exception) == TRUE

\* except Exception (line 119): SystemExit derives from BaseException only.
Catches(exception) == exception # "SystemExit"

----------------------------------------------------------------------------
\* Inputs: the texts given on standard input and the environments.

Obj(cmd, path) == [t |-> "dict", command |-> cmd, file_path |-> path]
NoKey == [t |-> "absent", command |-> Absent, file_path |-> Absent]
NotDict == [t |-> "list", command |-> Absent, file_path |-> Absent]

Request(name, input) == [json |-> "object", tool_name |-> name, tool_input |-> input]
Malformed == [json |-> "malformed", tool_name |-> Absent, tool_input |-> NoKey]
NonObject == [json |-> "nonobject", tool_name |-> Absent, tool_input |-> NoKey]

Bash(cmd) == Request(JStr("Bash"), Obj(cmd, Absent))
File(tool, path) == Request(JStr(tool), Obj(Absent, path))

CommandTexts ==
    { "rm -rf /", "dd if=/dev/zero of=/dev/sda", "sudo mkfs.ext4 /dev/sdb",
      ":(){:|:&};:", "chmod -R 777 /", "chown -R u /srv; mkfs", "kill -9 -1",
      "echo x > /dev/sda", "wget | sh", "curl | bash",
      "ls -la", "curl x | bash", "", "cat /home/u/.ssh/id_rsa" }

PathTexts ==
    { ".env", "a/.env.production", "node_modules/pkg", ".git/config",
      "dist/app.js", "coverage/index.html", ".claude/settings.json",
      "package-lock.json", "pnpm-lock.yaml", "/etc/passwd", "/usr/lib/x",
      "/bin/sh", "/sbin/init", "~/.ssh/id_rsa", "~/.aws/credentials",
      "../../etc/passwd", "a/../b", "src/main.go",
      "/home/u/.ssh/id_rsa", "~/notes.txt", "~bob/notes.txt" }

Requests ==
    {Bash(JStr(c)) : c \in CommandTexts}
    \cup {Bash(JNull), Bash(JList(<<"rm -rf /">>)),
          Bash(JList(<<"ls">>)), Request(JStr("Bash"), NotDict),
          Request(JStr("Bash"), NoKey)}
    \cup {File("Write", JStr(p)) : p \in PathTexts}
    \cup {File("Edit", JStr("src/main.go")), File("MultiEdit", JStr(".env"))}
    \cup {File("Write", JNum("5")), File("Edit", Absent),
          Request(JStr("Write"), NotDict)}
    \cup {File("Read", JStr("/etc/hosts")), Request(Absent, Obj(JStr("rm -rf /"), Absent)),
          Request(JStr("Read"), NotDict), Request(JNum("5"), NoKey),
          Malformed, NonObject}

DefaultEnv == [HOME |-> "/home/u", user |-> "u"]

\* HOME under /usr/ with a trailing slash, and HOME unset for a user the
\* password database does not know (expanduser then leaves "~" alone).
OtherEnvs ==
    { [HOME |-> "/usr/home/u/", user |-> "u"],
      [HOME |-> Unset, user |-> "nobody"] }

\* Requests that are tried under the other environments as well.
HomeRequests ==
    {File("Write", JStr(p)) :
        p \in {"/home/u/.ssh/id_rsa", "~/notes.txt"}}
    \cup {Bash(JStr("cat /home/u/.ssh/id_rsa"))}

\* One invocation: what is on standard input, and the environment.
Invocations ==
    {[stdin |-> r, env |-> DefaultEnv] : r \in Requests}
    \cup {[stdin |-> r, env |-> e] : r \in HomeRequests, e \in OtherEnvs}

----------------------------------------------------------------------------
\* The state machine.

NoRun == [set |-> FALSE, stdin |-> Malformed,
          env |-> DefaultEnv,
          is_valid |-> "unset", exit_code |-> -1, logged |-> 0]

Init ==
    /\ pc = "idle"
    /\ stdin = Malformed
    /\ env = NoRun.env
    /\ tool_name = Absent
    /\ tool_input = NoKey
    /\ command = Absent
    /\ file_path = Absent
    /\ is_valid = "unset"
    /\ message = ""
    /\ exc = "none"
    /\ stderr = <<>>
    /\ exit_code = -1
    /\ log = <<>>
    /\ log0 = <<>>
    /\ now = 0
    /\ prev = NoRun

\* The runtime starts the script on one request (line 123).
Start(s, e) ==
    /\ pc' = "read"
    /\ stdin' = s
    /\ env' = e
    /\ tool_name' = Absent
    /\ tool_input' = NoKey
    /\ command' = Absent
    /\ file_path' = Absent
    /\ is_valid' = "unset"
    /\ message' = ""
    /\ exc' = "none"
    /\ stderr' = <<>>
    /\ exit_code' = -1
    /\ log0' = log
    /\ now' = now + 1
    /\ prev' = IF pc = "done"
               THEN [set |-> TRUE, stdin |-> stdin, env |-> env,
                     is_valid |-> is_valid, exit_code |-> exit_code,
                     logged |-> Len(log) - Len(log0)]
               ELSE prev
    /\ UNCHANGED log

\* An exception raised inside the try block propagates to line 119.
Raise(exception) ==
    /\ exc' = exception
    /\ pc' = IF Catches(exception) THEN "except" ELSE "uncaught"

\* sys.exit(code) raises SystemExit(code); uncaught, it ends the process.
SysExit(code) ==
    IF Catches("SystemExit")
    THEN /\ exc' = "SystemExit"
         /\ pc' = "except"
         /\ UNCHANGED exit_code
    ELSE /\ exit_code' = code
         /\ pc' = "done"
         /\ UNCHANGED exc

\* Lines 89-92: json.load, data.get('tool_name', ''), data.get('tool_input', {}).
ReadRequest ==
    /\ pc = "read"
    /\ CASE stdin.json = "malformed" ->
              Raise("JSONDecodeError") /\ UNCHANGED <<tool_name, tool_input>>
         [] stdin.json = "nonobject" ->
              Raise("AttributeError") /\ UNCHANGED <<tool_name, tool_input>>
         [] OTHER ->
              /\ tool_name' = Get(stdin.tool_name, JStr(""))
              /\ tool_input' = IF stdin.tool_input.t = "absent"
                               THEN Obj(Absent, Absent) ELSE stdin.tool_input
              /\ pc' = "dispatch"
              /\ UNCHANGED exc
    /\ UNCHANGED <<stdin, env, command, file_path, is_valid, message, stderr,
                   exit_code, log, log0, now, prev>>

\* Lines 95-96, 106-107 and the fall through to line 117.
Dispatch ==
    /\ pc = "dispatch"
    /\ CASE tool_name = JStr("Bash") ->
              IF tool_input.t # "dict"
              THEN Raise("AttributeError") /\ UNCHANGED <<command, file_path>>
              ELSE /\ command' = Get(tool_input.command, JStr(""))
                   /\ pc' = "validate_command"
                   /\ UNCHANGED <<exc, file_path>>
         [] tool_name.t = "str" /\ tool_name.s \in FILE_TOOLS ->
              IF tool_input.t # "dict"
              THEN Raise("AttributeError") /\ UNCHANGED <<command, file_path>>
              ELSE /\ file_path' = Get(tool_input.file_path, JStr(""))
                   /\ pc' = "validate_file_path"
                   /\ UNCHANGED <<exc, command>>
         [] OTHER ->
              pc' = "exit0" /\ UNCHANGED <<exc, command, file_path>>
    /\ UNCHANGED <<stdin, env, tool_name, tool_input, is_valid, message, stderr,
                   exit_code, log, log0, now, prev>>

PyBool(b) == IF b THEN "True" ELSE "False"

\* What a call of a validator comes to: the exception it raises ("none"
\* when it returns) and the pair it returns.
Returns(pair) == [raises |-> "none", ok |-> pair.ok, message |-> pair.message]
Throws(exception) == [raises |-> exception, ok |-> FALSE, message |-> ""]

CallValidateCommand ==
    IF validate_command_raises(command) # "none"
    THEN Throws(validate_command_raises(command))
    ELSE Returns(validate_command(command))

CallValidateFilePath ==
    IF validate_file_path_raises(file_path) # "none"
    THEN Throws(validate_file_path_raises(file_path))
    ELSE Returns(validate_file_path(file_path, env))

\* is_valid, message = <the call>; then on to the log call at position next.
AssignVerdict(call, next) ==
    /\ IF call.raises # "none"
       THEN Raise(call.raises) /\ UNCHANGED <<is_valid, message>>
       ELSE /\ is_valid' = PyBool(call.ok)
            /\ message' = call.message
            /\ pc' = next
            /\ UNCHANGED exc
    /\ UNCHANGED <<stdin, env, tool_name, tool_input, command, file_path, stderr,
                   exit_code, log, log0, now, prev>>

\* Line 97.
ValidateCommand ==
    /\ pc = "validate_command"
    /\ \E call \in {CallValidateCommand} : AssignVerdict(call, "log_command")

\* Line 108.
ValidateFilePath ==
    /\ pc = "validate_file_path"
    /\ \E call \in {CallValidateFilePath} : AssignVerdict(call, "log_file")

\* Mutant: the test of is_valid is missing, nothing is ever blocked.
AfterLog_never_blocks == "exit0"

\* After the log call: line 101 or 112, if not is_valid.
AfterLog == IF is_valid = "False" THEN "report" ELSE "exit0"

\* Mutant: the file is opened with mode "w", which truncates it.
log_validation_truncate(event_type, data, result, msg) ==
    \/ /\ log' = <<LogEntry(event_type, data, result, msg)>>
       /\ pc' = AfterLog
       /\ UNCHANGED exc
    \/ /\ Raise("OSError")
       /\ UNCHANGED log

\* Lines 69-83: os.makedirs and the append either succeed, adding one line,
\* or raise OSError (unwritable directory, full disk) and add nothing.
log_validation(event_type, data, result, msg) ==
    \/ /\ log' = Append(log, LogEntry(event_type, data, result, msg))
       /\ pc' = AfterLog
       /\ UNCHANGED exc
    \/ /\ Raise("OSError")
       /\ UNCHANGED log

\* Line 99.
LogCommand ==
    /\ pc = "log_command"
    /\ log_validation("bash_command", command, is_valid, message)
    /\ UNCHANGED <<stdin, env, tool_name, tool_input, command, file_path, is_valid,
                   message, stderr, exit_code, log0, now, prev>>

\* Line 110.
LogFile ==
    /\ pc = "log_file"
    /\ log_validation("file_operation", file_path, is_valid, message)
    /\ UNCHANGED <<stdin, env, tool_name, tool_input, command, file_path, is_valid,
                   message, stderr, exit_code, log0, now, prev>>

\* Lines 102 and 113: print the marked message to sys.stderr.
Report ==
    /\ pc = "report"
    /\ stderr' = Append(stderr, "[X] " \o message)
    /\ pc' = "exit2"
    /\ UNCHANGED <<stdin, env, tool_name, tool_input, command, file_path, is_valid,
                   message, exc, exit_code, log, log0, now, prev>>

\* Lines 103 and 114: sys.exit(2).
Exit2 ==
    /\ pc = "exit2"
    /\ SysExit(2)
    /\ UNCHANGED <<stdin, env, tool_name, tool_input, command, file_path, is_valid,
                   message, stderr, log, log0, now, prev>>

\* Line 117: sys.exit(0).
Exit0 ==
    /\ pc = "exit0"
    /\ SysExit(0)
    /\ UNCHANGED <<stdin, env, tool_name, tool_input, command, file_path, is_valid,
                   message, stderr, log, log0, now, prev>>

\* Mutant: the handler reports the exception and lets the operation through.
HandleException_status0 ==
    /\ pc = "except"
    /\ stderr' = Append(stderr, "[X] validation error: " \o exc)
    /\ exit_code' = 0
    /\ pc' = "done"
    /\ UNCHANGED <<stdin, env, tool_name, tool_input, command, file_path, is_valid,
                   message, exc, log, log0, now, prev>>

\* Lines 119-121: report the exception and sys.exit(1).
HandleException ==
    /\ pc = "except"
    /\ stderr' = Append(stderr, "[X] validation error: " \o exc)
    /\ exit_code' = 1
    /\ pc' = "done"
    /\ UNCHANGED <<stdin, env, tool_name, tool_input, command, file_path, is_valid,
                   message, exc, log, log0, now, prev>>

StartAny ==
    /\ pc \in {"idle", "done"}
    /\ now < MaxRuns
    /\ \E i \in Invocations : Start(i.stdin, i.env)

Next ==
    \/ StartAny
    \/ ReadRequest
    \/ Dispatch
    \/ ValidateCommand
    \/ ValidateFilePath
    \/ LogCommand
    \/ LogFile
    \/ Report
    \/ Exit2
    \/ Exit0
    \/ HandleException

Spec == Init /\ [][Next]_vars

----------------------------------------------------------------------------
\* Vocabulary of the properties, read off the request on standard input.

Done == pc = "done"

IsObject == stdin.json = "object"
NameIs(names) == IsObject /\ stdin.tool_name.t = "str" /\ stdin.tool_name.s \in names
IsBashRequest == NameIs({"Bash"})
IsFileRequest == NameIs({"Write", "Edit", "MultiEdit"})

\* The request carries a mapping as tool_input (or none: the default is {}).
InputIsMapping == stdin.tool_input.t \in {"dict", "absent"}

\* The command / file_path of the request, with the default for a missing key.
ReqCommand == IF stdin.tool_input.command.t = "absent" THEN JStr("") ELSE stdin.tool_input.command
ReqPath == IF stdin.tool_input.file_path.t = "absent" THEN JStr("") ELSE stdin.tool_input.file_path

HasCommandString == IsBashRequest /\ InputIsMapping /\ ReqCommand.t = "str"
HasPathString == IsFileRequest /\ InputIsMapping /\ ReqPath.t = "str"

Denylisted(text) ==
    \E i \in 1..Len(DANGEROUS_COMMANDS) : Contains(DANGEROUS_COMMANDS[i], text)
ProtectedSubstring(text) ==
    \E i \in 1..Len(PROTECTED_PATHS) : Contains(PROTECTED_PATHS[i], text)
\* A protected entry, home-expanded, occurs in the home-expanded path.
ProtectedExpanded(text, e) ==
    \E i \in 1..Len(PROTECTED_PATHS) :
        Contains(expanduser(PROTECTED_PATHS[i], e), expanduser(text, e))

Appended == Len(log) - Len(log0)
LogFailed == exc = "OSError"
\* Exit status of a run whose validator returned ok or not-ok.
StatusAfterLog(ok) ==
    IF Appended = 1 THEN exit_code = (IF ok THEN 0 ELSE 2)
    ELSE exit_code = 1 /\ LogFailed

----------------------------------------------------------------------------
\* C1 as stated: every Bash request whose command string contains a
\* denylisted substring, "curl x | bash" being given as one, is found
\* not-ok and the process exits with status 2.
C1_AsStated ==
    (Done /\ HasCommandString
          /\ (Denylisted(ReqCommand.s) \/ ReqCommand.s = "curl x | bash"))
    => (is_valid = "False" /\ exit_code = 2)

\* C1, amended: every Bash request whose command string contains an entry of
\* DANGEROUS_COMMANDS as a substring is found not-ok; the process exits with
\* status 2 once the log line is appended, and with status 1 when appending
\* it fails.  "curl x | bash" contains no entry and is allowed (status 0
\* after its log line).
C1_DenylistedBlocked ==
    /\ (Done /\ HasCommandString /\ Denylisted(ReqCommand.s))
       => (is_valid = "False" /\ StatusAfterLog(FALSE))
    /\ (Done /\ HasCommandString /\ ReqCommand.s = "curl x | bash")
       => (is_valid = "True" /\ StatusAfterLog(TRUE))

\* A denylisted pattern inside a longer command was blocked with status 2.
C1_Witness ==
    /\ Done /\ HasCommandString
    /\ ReqCommand.s = "sudo mkfs.ext4 /dev/sdb"
    /\ exit_code = 2

\* C2 as stated: every Write/Edit/MultiEdit request whose file_path contains
\* a protected substring or ".." is found not-ok and the process exits 2.
C2_AsStated ==
    (Done /\ HasPathString
          /\ (ProtectedSubstring(ReqPath.s) \/ Contains("..", ReqPath.s)))
    => (is_valid = "False" /\ exit_code = 2)

\* C2, amended: every such request is found not-ok; the process exits with
\* status 2 once the log line is appended, and with status 1 when appending
\* it fails.
C2_ProtectedBlocked ==
    (Done /\ HasPathString
          /\ (ProtectedSubstring(ReqPath.s) \/ Contains("..", ReqPath.s)))
    => (is_valid = "False" /\ StatusAfterLog(FALSE))

\* A path with ".." and no protected entry was blocked with status 2.
C2_Witness ==
    /\ Done /\ HasPathString
    /\ ReqPath.s = "a/../b"
    /\ stdin.tool_name.s = "Write"
    /\ exit_code = 2

\* C3 as stated: a Bash request with no denylisted substring, and a
\* Write/Edit/MultiEdit request whose file_path has no protected substring
\* and no "..", is found ok with message "OK" and the process exits 0.
C3_AsStated ==
    (Done /\ (\/ HasCommandString /\ ~Denylisted(ReqCommand.s)
              \/ HasPathString /\ ~ProtectedSubstring(ReqPath.s)
                               /\ ~Contains("..", ReqPath.s)))
    => (is_valid = "True" /\ message = "OK" /\ exit_code = 0)

\* C3, amended: a Bash request with no denylisted substring, and a
\* Write/Edit/MultiEdit request whose file_path has no protected substring,
\* no ".." and whose home-expanded form contains no home-expanded protected
\* entry, is found ok with message "OK"; the process exits with status 0 once
\* the log line is appended, and with status 1 when appending it fails.
C3_CleanAllowed ==
    (Done /\ (\/ HasCommandString /\ ~Denylisted(ReqCommand.s)
              \/ HasPathString /\ ~ProtectedSubstring(ReqPath.s)
                               /\ ~ProtectedExpanded(ReqPath.s, env)
                               /\ ~Contains("..", ReqPath.s)))
    => (is_valid = "True" /\ message = "OK" /\ StatusAfterLog(TRUE))

\* A clean path beginning with "~" was allowed with status 0.
C3_Witness ==
    /\ Done /\ HasPathString
    /\ ReqPath.s = "~/notes.txt"
    /\ exit_code = 0
    /\ Appended = 1

----------------------------------------------------------------------------
\* What the log line of this run must say, read off the request.
ExpectedEventType == IF IsBashRequest THEN "bash_command" ELSE "file_operation"
ExpectedData == IF IsBashRequest THEN ReqCommand ELSE ReqPath
OldLinesKept == Len(log) >= Len(log0) /\ SubSeq(log, 1, Len(log0)) = log0
NewLineMatches ==
    /\ Appended = 1
    /\ log[Len(log)].event_type = ExpectedEventType
    /\ log[Len(log)].data = ExpectedData
    /\ log[Len(log)].result = is_valid
    /\ (log[Len(log)].result = "False") <=> (exit_code = 2)

\* C4 as stated: every invocation with tool_name Bash, Write, Edit or
\* MultiEdit appends exactly one entry before it exits, with the matching
\* event_type, data and result, and leaves the older lines unchanged.
C4_AsStated ==
    (Done /\ (IsBashRequest \/ IsFileRequest)) => (OldLinesKept /\ NewLineMatches)

\* C4, amended: an invocation with tool_name Bash, Write, Edit or MultiEdit
\* that ends with status 0 or 2 has appended exactly one entry, with the
\* matching event_type, data and result; one that ends with status 1 (its
\* tool_input is no mapping, the validator raised on the value, or the append
\* failed) has appended none; the older lines are unchanged at every step.
C4_OneEntryOrError ==
    /\ OldLinesKept
    /\ Appended <= 1
    /\ (Done /\ (IsBashRequest \/ IsFileRequest))
       => IF exit_code \in {0, 2} THEN NewLineMatches
          ELSE exit_code = 1 /\ Appended = 0

\* A blocked file operation added its line after a line of an earlier run.
C4_Witness ==
    /\ Done /\ IsFileRequest
    /\ Len(log0) = 1
    /\ Appended = 1
    /\ exit_code = 2

\* C5: every invocation ends with exactly one status of {0, 1, 2}; 2 only
\* after a validator returned not-ok, 0 only when no validator rejected, 1
\* only on an internal error; on a validated request the order is validate,
\* log, stderr message (if rejected), exit status.  Termination is stated as
\* progress: a running process can always take a step, and every step moves
\* it strictly forward in main(), which has finitely many positions.
Running == pc \notin {"idle", "done"}
Position(p) ==
    CASE p = "read" -> 1
      [] p = "dispatch" -> 2
      [] p \in {"validate_command", "validate_file_path"} -> 3
      [] p \in {"log_command", "log_file"} -> 4
      [] p = "report" -> 5
      [] p \in {"exit0", "exit2"} -> 6
      [] p = "except" -> 7
      [] p = "done" -> 8
      [] OTHER -> 0
\* The statement at the process's position can be executed (for a call of a
\* validator: the call comes to a verdict, and the assignment can be made).
CanStep ==
    CASE pc = "read" -> ENABLED ReadRequest
      [] pc = "dispatch" -> ENABLED Dispatch
      [] pc = "validate_command" ->
            \E call \in {CallValidateCommand} : ENABLED AssignVerdict(call, "log_command")
      [] pc = "validate_file_path" ->
            \E call \in {CallValidateFilePath} : ENABLED AssignVerdict(call, "log_file")
      [] pc = "log_command" -> ENABLED LogCommand
      [] pc = "log_file" -> ENABLED LogFile
      [] pc = "report" -> ENABLED Report
      [] pc = "exit2" -> ENABLED Exit2
      [] pc = "exit0" -> ENABLED Exit0
      [] pc = "except" -> ENABLED HandleException
      [] OTHER -> FALSE
InternalErrors == {"JSONDecodeError", "AttributeError", "TypeError", "OSError"}
C5_State ==
    /\ (Done => exit_code \in {0, 1, 2})
    /\ (~Done => exit_code = -1)
    /\ (Done /\ exit_code = 2) => (is_valid = "False" /\ stderr = <<"[X] " \o message>>)
    /\ (Done /\ exit_code = 0) => (is_valid # "False" /\ stderr = <<>>)
    /\ (Done /\ exit_code = 1) => exc \in InternalErrors
    /\ (Done /\ exit_code \in {0, 2} /\ is_valid # "unset") => Appended = 1
    /\ pc \in {"read", "dispatch", "validate_command", "validate_file_path"}
       => (is_valid = "unset" /\ Appended = 0 /\ stderr = <<>>)
    /\ pc \in {"log_command", "log_file"}
       => (is_valid # "unset" /\ Appended = 0 /\ stderr = <<>>)
    /\ pc = "report" => (is_valid = "False" /\ Appended = 1 /\ stderr = <<>>)
    /\ pc = "exit2" => (is_valid = "False" /\ Appended = 1 /\ Len(stderr) = 1)
    /\ pc = "exit0" => (is_valid # "False" /\ stderr = <<>>
                        /\ (is_valid = "True" <=> Appended = 1))
    /\ Running => CanStep
C5_StatusOnce == exit_code # -1 => (exit_code' = exit_code \/ pc' = "read")
C5_Forward == Running => Position(pc') > Position(pc)
C5_ExitProtocol ==
    /\ []C5_State
    /\ [][C5_StatusOnce /\ C5_Forward]_vars

\* A rejected request went through validate, log, stderr and status 2.
C5_Witness ==
    /\ Done /\ exit_code = 2
    /\ is_valid = "False"
    /\ Appended = 1
    /\ Len(stderr) = 1

\* C6: every internal failure (input that is JSON but no object, a
\* non-string command or file_path, an I/O failure while logging, any other
\* exception) ends with a report on stderr and status 1, never 0 or 2; and
\* the exits with status 0 and 2 are never turned into status 1.
NonStringValue ==
    \/ IsBashRequest /\ stdin.tool_input.t = "dict" /\ ReqCommand.t # "str"
    \/ IsFileRequest /\ stdin.tool_input.t = "dict" /\ ReqPath.t # "str"
InternalFailure ==
    \/ stdin.json = "nonobject"
    \/ NonStringValue
    \/ exc # "none"
C6_AsStated ==
    Done => /\ InternalFailure => (exit_code = 1 /\ Len(stderr) = 1)
            /\ ~InternalFailure => exit_code \in {0, 2}

\* C7: malformed standard input ends with status 1, runs no validator and
\* leaves the log file as it was.
C7_MalformedInput ==
    (pc # "idle" /\ stdin.json = "malformed")
    => /\ pc \in {"read", "except", "done"}
       /\ is_valid = "unset"
       /\ log = log0
       /\ Done => (exit_code = 1 /\ stderr = <<"[X] validation error: JSONDecodeError">>)

\* Malformed input was rejected while the log held a line of an earlier run.
C7_Witness ==
    /\ Done /\ stdin.json = "malformed"
    /\ exit_code = 1
    /\ Len(log) = 1

\* C8: a well-formed request whose tool_name is none of Bash, Write, Edit,
\* MultiEdit runs no validator, writes nothing to the log or to stderr, and
\* exits with status 0, whatever tool_input contains.
C8_OtherToolsPass ==
    (pc # "idle" /\ IsObject /\ ~NameIs({"Bash", "Write", "Edit", "MultiEdit"}))
    => /\ pc \in {"read", "dispatch", "exit0", "done"}
       /\ is_valid = "unset"
       /\ log = log0
       /\ stderr = <<>>
       /\ Done => exit_code = 0

\* A Read request whose tool_input is no mapping ended with status 0.
C8_Witness ==
    /\ Done /\ stdin = Request(JStr("Read"), NotDict)
    /\ exit_code = 0
    /\ Len(log) = 1

\* The first protected entry, in list order, that the path validator matches.
IsFirstProtected(i, path, e) ==
    /\ ProtectedHit(PROTECTED_PATHS[i], path, e)
    /\ \A j \in 1..(i - 1) : ~ProtectedHit(PROTECTED_PATHS[j], path, e)
TraversalMessage == "parent directory traversal not allowed"

\* C9 as stated: every path containing ".." is rejected and the traversal
\* message is returned whenever ".." appears anywhere in the path; a path
\* where both rules fire still exits 2.
C9_AsStated ==
    (Done /\ HasPathString /\ Contains("..", ReqPath.s))
    => (is_valid = "False" /\ message = TraversalMessage /\ exit_code = 2)

\* C9, amended: every path containing ".." is rejected; the traversal
\* message is returned when ".." appears and no protected entry matches;
\* when both rules fire the message is that of the first matching protected
\* entry in list order; the process exits 2 once the log line is appended
\* (1 when appending it fails).
C9_TraversalAfterProtected ==
    (Done /\ HasPathString /\ Contains("..", ReqPath.s))
    => /\ is_valid = "False"
       /\ StatusAfterLog(FALSE)
       /\ (\A i \in 1..Len(PROTECTED_PATHS) : ~ProtectedHit(PROTECTED_PATHS[i], ReqPath.s, env))
          => message = TraversalMessage
       /\ \A i \in 1..Len(PROTECTED_PATHS) :
             IsFirstProtected(i, ReqPath.s, env)
             => message = "protected path access: " \o PROTECTED_PATHS[i]

\* Both rules fire on "../../etc/passwd": blocked, with the message of /etc/.
C9_Witness ==
    /\ Done /\ HasPathString
    /\ ReqPath.s = "../../etc/passwd"
    /\ exit_code = 2
    /\ message = "protected path access: /etc/"

\* C10 as stated: two invocations given the same request have the same
\* validator result and the same exit status, whatever the environment and
\* the prior contents of the log.
C10_AsStated ==
    (Done /\ prev.set /\ prev.stdin = stdin)
    => (prev.is_valid = is_valid /\ prev.exit_code = exit_code)

\* C10, amended: two invocations given the same request and the same
\* environment (HOME, user) have the same validator result,
\* and the same exit status when both append their log line or both fail
\* to, whatever the prior contents of the log; for a request that is not a
\* Write, Edit or MultiEdit the environment makes no difference either.
C10_FunctionOfRequestAndHome ==
    (Done /\ prev.set /\ prev.stdin = stdin /\ (prev.env = env \/ ~IsFileRequest))
    => /\ prev.is_valid = is_valid
       /\ (prev.logged = Appended) => (prev.exit_code = exit_code)

\* The same file request was blocked twice, the second time with a log that
\* the first run had written to.
C10_Witness ==
    /\ Done /\ prev.set /\ prev.stdin = stdin /\ prev.env = env
    /\ IsFileRequest
    /\ is_valid = "False" /\ prev.is_valid = "False"
    /\ Len(log0) = 1
    /\ exit_code = 2 /\ prev.exit_code = 2

====
